---- MODULE Spec2Model ----
(***************************************************************************)
(* Kubernetes Job tasks of prefect/tasks/kubernetes/job.py.                *)
(*                                                                         *)
(* Six task classes (create, delete, list, patch, read, replace), each     *)
(* with a constructor that stores defaults on the instance and a run()     *)
(* method that validates, resolves credentials, builds self.client,        *)
(* updates the stored dictionaries in place and calls one operation of the *)
(* Batch API client.  run() is modelled statement by statement so that     *)
(* the order of its effects, and the interleaving of two invocations of    *)
(* one instance, are visible.                                              *)
(*                                                                         *)
(* Dictionaries are functions from a finite set of keys; "absent" run-time *)
(* arguments are modelled explicitly.  A local variable of run() that was  *)
(* filled from the instance attribute is a reference to the attribute's    *)
(* dictionary object (self = TRUE), not a copy.                            *)
(***************************************************************************)
EXTENDS Integers, Sequences, FiniteSets, TLC

\* ---------------------------------------------------------------- bounds
MaxRuns == 2       \* invocations started in one behaviour

\* ------------------------------------------------------------ value sets
Inst == {1, 2}     \* task instances
Thr  == {1, 2}     \* threads of the workflow engine that invoke run()

Verbs     == {"create", "delete", "list", "patch", "read", "replace"}
BodyVerbs == {"create", "patch", "replace"}
NameVerbs == {"delete", "patch", "read", "replace"}

None == "<None>"   \* Python None for string-valued arguments

\* body keys are "a" and "b", their values nested mappings; the extra
\* keyword options are "pretty" and "dry_run"
EmptyMap == <<>>
AbsentMap == [given |-> FALSE, val |-> EmptyMap]
Given(m)  == [given |-> TRUE, val |-> m]

\* arguments a caller may give to a constructor
CtorBodies     == {AbsentMap, Given("a" :> [x |-> 1])}
CtorKwargs     == {AbsentMap, Given("pretty" :> "true"), Given("dry_run" :> "true")}
CtorNames      == {None, "job1"}
CtorNamespaces == {None, "ns1"}
CtorSecrets    == {None}

\* arguments a caller may give to run()
RunBodies     == {AbsentMap, Given(EmptyMap), Given("a" :> [y |-> 1]),
                  Given("b" :> [x |-> 1])}
RunKwargs     == {AbsentMap, Given("dry_run" :> "All")}
RunNames      == {None, "job2"}
RunNamespaces == {None, "ns2"}
RunSecrets    == {None, "K2"}

\* ---------------------------------------------------------------- state
VARIABLES
  ctor,                       \* per instance: the constructor call (never changes)
  body,                       \* self.body
  kube_kwargs,                \* self.kube_kwargs
  name,                       \* self.name
  namespace,                  \* self.namespace
  kubernetes_api_key_secret,  \* self.kubernetes_api_key_secret
  client,                     \* self.client
  pc,                         \* per thread: position inside run()
  inst,                       \* per thread: the instance whose run() it executes
  args,                       \* per thread: the run-time arguments as given
  local,                      \* per thread: run()'s local variables
  pre,                        \* per thread: stored dictionaries when run() was entered
  log,                        \* per thread: external effects of this invocation, in order
  calls,                      \* per thread: the API calls of this invocation, each
                              \*   with its arguments (req) and what it returned or raised
  outcome,                    \* per thread: how the invocation ended
  expect,                     \* per instance: the constructor's body updated with the
                              \*   run-time bodies so far, while allCalled
  allCalled,                  \* per instance: every invocation so far reached its API call
  runs,                       \* invocations started
  started                     \* per instance: invocations started on it

stored == <<body, kube_kwargs, name, namespace, kubernetes_api_key_secret>>
frame  == <<inst, args, local, pre>>
vars   == <<ctor, body, kube_kwargs, name, namespace, kubernetes_api_key_secret,
            client, pc, inst, args, local, pre, log, calls, outcome, expect,
            allCalled, runs, started>>

\* ------------------------------------------------------------- helpers
\* dict.update(other): every key of other is set, the other keys stay
Update(S, R) ==
  [k \in (DOMAIN S) \cup (DOMAIN R) |-> IF k \in DOMAIN R THEN R[k] ELSE S[k]]

\* Python truthiness of a dictionary and of an optional string
Truthy(m)    == DOMAIN m # {}
TruthyStr(s) == s # None /\ s # ""

Has(l, e) == \E n \in 1..Len(l) : l[n] = e

NoKey     == [secret |-> None, token |-> FALSE]
NoClient  == [kind |-> "none", auth |-> NoKey]
NoLocal   == [body |-> [self |-> FALSE, val |-> EmptyMap], name |-> None,
              namespace |-> None,
              kube_kwargs |-> [self |-> FALSE, val |-> EmptyMap],
              kubernetes_api_key_secret |-> None, kubernetes_api_key |-> NoKey]
NoArgs    == [body |-> AbsentMap, name |-> None, namespace |-> None,
              kube_kwargs |-> AbsentMap, secret |-> None]
NoPre     == [body |-> EmptyMap, kube_kwargs |-> EmptyMap]

\* the operation of the Batch API client each class calls
ApiOp(v) == v \o "_namespaced_job"

\* ------------------------------------------------------- construction
\* __init__ of the six classes: body or {}, kube_kwargs or {}, the signature
\* defaults of namespace and kubernetes_api_key_secret.  Delete and Read
\* store name; Patch and Replace take name but never assign it.
InitBody(c)      == IF c.body.given /\ Truthy(c.body.val) THEN c.body.val ELSE EmptyMap
InitKwargs(c)    == IF c.kube_kwargs.given /\ Truthy(c.kube_kwargs.val)
                      THEN c.kube_kwargs.val ELSE EmptyMap
InitNamespace(c) == IF c.namespace = None THEN "default" ELSE c.namespace
InitSecret(c)    == IF c.secret = None THEN "KUBERNETES_API_KEY" ELSE c.secret
InitName(c)      == IF c.verb \in {"delete", "read"} THEN c.name ELSE None

\* constructor calls that the signatures allow
CtorCalls ==
  {c \in [verb : Verbs, body : CtorBodies, name : CtorNames,
          namespace : CtorNamespaces, kube_kwargs : CtorKwargs,
          secret : CtorSecrets] :
     /\ (c.verb \notin BodyVerbs => c.body = AbsentMap)
     /\ (c.verb \notin NameVerbs => c.name = None)}

\* ListNamespacedJob() with no arguments
PlainList == [verb |-> "list", body |-> AbsentMap, name |-> None,
              namespace |-> None, kube_kwargs |-> AbsentMap, secret |-> None]

\* the state after the constructor calls cs, one for each instance
Constructed(cs) ==
  /\ ctor = cs
  /\ body = [i \in Inst |-> InitBody(ctor[i])]
  /\ kube_kwargs = [i \in Inst |-> InitKwargs(ctor[i])]
  /\ name = [i \in Inst |-> InitName(ctor[i])]
  /\ namespace = [i \in Inst |-> InitNamespace(ctor[i])]
  /\ kubernetes_api_key_secret = [i \in Inst |-> InitSecret(ctor[i])]
  /\ client = [i \in Inst |-> NoClient]
  /\ pc = [t \in Thr |-> "idle"]
  /\ inst = [t \in Thr |-> 1]
  /\ args = [t \in Thr |-> NoArgs]
  /\ local = [t \in Thr |-> NoLocal]
  /\ pre = [t \in Thr |-> NoPre]
  /\ log = [t \in Thr |-> <<>>]
  /\ calls = [t \in Thr |-> <<>>]
  /\ outcome = [t \in Thr |-> "none"]
  /\ expect = [i \in Inst |-> InitBody(ctor[i])]
  /\ allCalled = [i \in Inst |-> TRUE]
  /\ runs = 0
  /\ started = [i \in Inst |-> 0]

Init ==
  \E c \in CtorCalls : Constructed([i \in Inst |-> IF i = 1 THEN c ELSE PlainList])

\* ------------------------------------------------------------- run()
\* run-time argument lists that the signature of run() of verb v allows
RunCalls(v) ==
  {a \in [body : RunBodies, name : RunNames, namespace : RunNamespaces,
          kube_kwargs : RunKwargs, secret : RunSecrets] :
     /\ (v \notin BodyVerbs => a.body = AbsentMap)
     /\ (v \notin NameVerbs => a.name = None)}

\* the decorator of run(): an argument the caller did not give is taken from
\* the instance attribute of the same name (for a dictionary: the stored
\* object itself)
DefaultsFromAttrs(i, a) ==
  [body |-> IF a.body.given THEN [self |-> FALSE, val |-> a.body.val]
            ELSE [self |-> TRUE, val |-> EmptyMap],
   name |-> IF a.name # None THEN a.name ELSE name[i],
   namespace |-> IF a.namespace # None THEN a.namespace ELSE namespace[i],
   kube_kwargs |-> IF a.kube_kwargs.given
                     THEN [self |-> FALSE, val |-> a.kube_kwargs.val]
                     ELSE [self |-> TRUE, val |-> EmptyMap],
   kubernetes_api_key_secret |->
       IF a.secret # None THEN a.secret ELSE kubernetes_api_key_secret[i],
   kubernetes_api_key |-> NoKey]

\* the dictionaries the locals body and kube_kwargs of thread t refer to
BodyOf(t)   == IF local[t].body.self THEN body[inst[t]] ELSE local[t].body.val
KwargsOf(t) == IF local[t].kube_kwargs.self THEN kube_kwargs[inst[t]]
               ELSE local[t].kube_kwargs.val

Verb(t) == ctor[inst[t]].verb

AfterClient(v) == IF v \in BodyVerbs THEN "merge_body" ELSE "merge_kwargs"

\* (for the history variable expect) the mapping the specification calls the effective mapping: E[k] = R[k]
\* for k in R, E[k] = S[k] otherwise, for every key of S or R
KeyByKey(S, R) ==
  [k \in (DOMAIN S) \cup (DOMAIN R) |-> IF k \in DOMAIN R THEN R[k] ELSE S[k]]

\* a run() that keeps the run-time name, namespace and secret name on the
\* instance
Start_StoreOverrides(t, i, a) ==
  /\ pc[t] = "idle"
  /\ runs < MaxRuns
  /\ a \in RunCalls(ctor[i].verb)
  /\ inst' = [inst EXCEPT ![t] = i]
  /\ args' = [args EXCEPT ![t] = a]
  /\ local' = [local EXCEPT ![t] = DefaultsFromAttrs(i, a)]
  /\ name' = [name EXCEPT ![i] = DefaultsFromAttrs(i, a).name]
  /\ namespace' = [namespace EXCEPT ![i] = DefaultsFromAttrs(i, a).namespace]
  /\ kubernetes_api_key_secret' =
       [kubernetes_api_key_secret EXCEPT
          ![i] = DefaultsFromAttrs(i, a).kubernetes_api_key_secret]
  /\ pre' = [pre EXCEPT ![t] = [body |-> body[i], kube_kwargs |-> kube_kwargs[i]]]
  /\ log' = [log EXCEPT ![t] = <<>>]
  /\ calls' = [calls EXCEPT ![t] = <<>>]
  /\ outcome' = [outcome EXCEPT ![t] = "none"]
  /\ expect' = [expect EXCEPT ![i] = IF allCalled[i] THEN KeyByKey(@, a.body.val) ELSE @]
  /\ runs' = runs + 1
  /\ started' = [started EXCEPT ![i] = @ + 1]
  /\ pc' = [pc EXCEPT ![t] = IF ctor[i].verb = "list" THEN "secret" ELSE "validate"]
  /\ UNCHANGED <<ctor, body, kube_kwargs, client, allCalled>>

\* the engine calls run() of instance i on thread t with arguments a
Start(t, i, a) ==
  /\ pc[t] = "idle"
  /\ runs < MaxRuns
  /\ a \in RunCalls(ctor[i].verb)
  /\ inst' = [inst EXCEPT ![t] = i]
  /\ args' = [args EXCEPT ![t] = a]
  /\ local' = [local EXCEPT ![t] = DefaultsFromAttrs(i, a)]
  /\ pre' = [pre EXCEPT ![t] = [body |-> body[i], kube_kwargs |-> kube_kwargs[i]]]
  /\ log' = [log EXCEPT ![t] = <<>>]
  /\ calls' = [calls EXCEPT ![t] = <<>>]
  /\ outcome' = [outcome EXCEPT ![t] = "none"]
  /\ expect' = [expect EXCEPT ![i] = IF allCalled[i] THEN KeyByKey(@, a.body.val) ELSE @]
  /\ runs' = runs + 1
  /\ started' = [started EXCEPT ![i] = @ + 1]
  /\ pc' = [pc EXCEPT ![t] = IF ctor[i].verb = "list" THEN "secret" ELSE "validate"]
  /\ UNCHANGED <<ctor, stored, client, allCalled>>

\* a run() that forgets the check of body
Valid_NoBodyCheck(t) ==
  Verb(t) \in NameVerbs => TruthyStr(local[t].name)

\* a run() that forgets the check of name
Valid_NoNameCheck(t) ==
  Verb(t) \in BodyVerbs => Truthy(BodyOf(t))

\* the checks at the top of run(): body first, then name
Valid(t) ==
  /\ (Verb(t) \in BodyVerbs => Truthy(BodyOf(t)))
  /\ (Verb(t) \in NameVerbs => TruthyStr(local[t].name))

\* a run() that updates the stored dictionaries right after the checks
Validate_ThenMerge(t) ==
  /\ pc[t] = "validate"
  /\ IF Valid(t)
       THEN /\ pc' = [pc EXCEPT ![t] = "secret"]
            /\ body' = [body EXCEPT ![inst[t]] =
                          IF Verb(t) \in BodyVerbs THEN Update(@, BodyOf(t)) ELSE @]
            /\ kube_kwargs' = [kube_kwargs EXCEPT ![inst[t]] = Update(@, KwargsOf(t))]
            /\ UNCHANGED <<outcome, allCalled>>
       ELSE /\ pc' = [pc EXCEPT ![t] = "done"]
            /\ outcome' = [outcome EXCEPT ![t] = "ValueError"]
            /\ allCalled' = [allCalled EXCEPT ![inst[t]] = FALSE]
            /\ UNCHANGED <<body, kube_kwargs>>
  /\ UNCHANGED <<ctor, name, namespace, kubernetes_api_key_secret, client, frame,
                 log, calls, expect, runs, started>>

Validate(t) ==
  /\ pc[t] = "validate"
  /\ IF Valid(t)
       THEN /\ pc' = [pc EXCEPT ![t] = "secret"]
            /\ UNCHANGED <<outcome, allCalled>>
       ELSE /\ pc' = [pc EXCEPT ![t] = "done"]
            /\ outcome' = [outcome EXCEPT ![t] = "ValueError"]
            /\ allCalled' = [allCalled EXCEPT ![inst[t]] = FALSE]
  /\ UNCHANGED <<ctor, stored, client, frame, log, calls, expect, runs, started>>

\* what the secret store may hold under a name: nothing, or a token
SecretValues(n) == {[secret |-> n, token |-> FALSE], [secret |-> n, token |-> TRUE]}

\* kubernetes_api_key = Secret(kubernetes_api_key_secret).get()
SecretGet(t) ==
  /\ pc[t] = "secret"
  /\ \E k \in SecretValues(local[t].kubernetes_api_key_secret) :
       /\ local' = [local EXCEPT ![t].kubernetes_api_key = k]
       /\ pc' = [pc EXCEPT ![t] = IF k.token THEN "token_client" ELSE "incluster"]
  /\ log' = [log EXCEPT ![t] = Append(@, "secret")]
  /\ UNCHANGED <<ctor, stored, client, inst, args, pre, calls, outcome, expect,
                 allCalled, runs, started>>

\* a run() that builds the client without the configuration it has filled:
\* self.client = client.BatchV1Api()
TokenClient_NoConfiguration(t) ==
  /\ pc[t] = "token_client"
  /\ client' = [client EXCEPT ![inst[t]] = [kind |-> "token", auth |-> NoKey]]
  /\ log' = [log EXCEPT ![t] = Append(@, "client")]
  /\ pc' = [pc EXCEPT ![t] = AfterClient(Verb(t))]
  /\ UNCHANGED <<ctor, stored, frame, calls, outcome, expect, allCalled, runs, started>>

\* configuration.api_key["authorization"] = kubernetes_api_key
\* self.client = client.BatchV1Api(client.ApiClient(configuration))
TokenClient(t) ==
  /\ pc[t] = "token_client"
  /\ client' = [client EXCEPT ![inst[t]] =
                  [kind |-> "token", auth |-> local[t].kubernetes_api_key]]
  /\ log' = [log EXCEPT ![t] = Append(@, "client")]
  /\ pc' = [pc EXCEPT ![t] = AfterClient(Verb(t))]
  /\ UNCHANGED <<ctor, stored, frame, calls, outcome, expect, allCalled, runs, started>>

\* a run() with a bare "except:" around load_incluster_config()
LoadInCluster_BareExcept(t) ==
  /\ pc[t] = "incluster"
  /\ \E r \in {"ok", "ConfigException", "Error"} :
       /\ log' = [log EXCEPT ![t] = Append(@, "incluster:" \o r)]
       /\ pc' = [pc EXCEPT ![t] = IF r = "ok" THEN "ambient_client" ELSE "kubeconfig"]
  /\ UNCHANGED <<ctor, stored, client, frame, calls, outcome, expect, allCalled, runs, started>>

\* config.load_incluster_config(): succeeds, raises ConfigException (not in
\* a cluster), or raises something else
LoadInCluster(t) ==
  /\ pc[t] = "incluster"
  /\ \E r \in {"ok", "ConfigException", "Error"} :
       /\ log' = [log EXCEPT ![t] = Append(@, "incluster:" \o r)]
       /\ pc' = [pc EXCEPT ![t] = CASE r = "ok" -> "ambient_client"
                                    [] r = "ConfigException" -> "kubeconfig"
                                    [] OTHER -> "done"]
       /\ outcome' = [outcome EXCEPT ![t] = IF r = "Error" THEN "InClusterError" ELSE @]
       /\ allCalled' = [allCalled EXCEPT ![inst[t]] = IF r = "Error" THEN FALSE ELSE @]
  /\ UNCHANGED <<ctor, stored, client, frame, calls, expect, runs, started>>

\* except ConfigException: config.load_kube_config()
LoadKubeConfig(t) ==
  /\ pc[t] = "kubeconfig"
  /\ \E r \in {"ok", "Error"} :
       /\ log' = [log EXCEPT ![t] = Append(@, "kubeconfig:" \o r)]
       /\ pc' = [pc EXCEPT ![t] = IF r = "ok" THEN "ambient_client" ELSE "done"]
       /\ outcome' = [outcome EXCEPT ![t] = IF r = "Error" THEN "KubeConfigError" ELSE @]
       /\ allCalled' = [allCalled EXCEPT ![inst[t]] = IF r = "Error" THEN FALSE ELSE @]
  /\ UNCHANGED <<ctor, stored, client, frame, calls, expect, runs, started>>

\* self.client = client.BatchV1Api()
AmbientClient(t) ==
  /\ pc[t] = "ambient_client"
  /\ client' = [client EXCEPT ![inst[t]] =
                  [kind |-> IF Has(log[t], "kubeconfig:ok") THEN "kubeconfig"
                            ELSE "incluster",
                   auth |-> NoKey]]
  /\ log' = [log EXCEPT ![t] = Append(@, "client")]
  /\ pc' = [pc EXCEPT ![t] = AfterClient(Verb(t))]
  /\ UNCHANGED <<ctor, stored, frame, calls, outcome, expect, allCalled, runs, started>>

\* classes whose instances all hold one and the same body dictionary
MergeBody_SharedDict(t) ==
  /\ pc[t] = "merge_body"
  /\ body' = [i \in Inst |-> Update(body[i], BodyOf(t))]
  /\ log' = [log EXCEPT ![t] = Append(@, "merge_body")]
  /\ pc' = [pc EXCEPT ![t] = "merge_kwargs"]
  /\ UNCHANGED <<ctor, kube_kwargs, name, namespace, kubernetes_api_key_secret,
                 client, frame, calls, outcome, expect, allCalled, runs, started>>

\* self.body.update(body or {})
MergeBody(t) ==
  /\ pc[t] = "merge_body"
  /\ body' = [body EXCEPT ![inst[t]] = Update(@, BodyOf(t))]
  /\ log' = [log EXCEPT ![t] = Append(@, "merge_body")]
  /\ pc' = [pc EXCEPT ![t] = "merge_kwargs"]
  /\ UNCHANGED <<ctor, kube_kwargs, name, namespace, kubernetes_api_key_secret,
                 client, frame, calls, outcome, expect, allCalled, runs, started>>

\* self.kube_kwargs.update(kube_kwargs or {})
MergeKwargs(t) ==
  /\ pc[t] = "merge_kwargs"
  /\ kube_kwargs' = [kube_kwargs EXCEPT ![inst[t]] = Update(@, KwargsOf(t))]
  /\ log' = [log EXCEPT ![t] = Append(@, "merge_kwargs")]
  /\ pc' = [pc EXCEPT ![t] = "call"]
  /\ UNCHANGED <<ctor, body, name, namespace, kubernetes_api_key_secret,
                 client, frame, calls, outcome, expect, allCalled, runs, started>>

\* a client call that passes the local body instead of self.body
CallArgs_LocalBody(t) ==
  [op |-> ApiOp(Verb(t)),
   name |-> IF Verb(t) \in {"delete", "read"} THEN local[t].name ELSE None,
   namespace |-> local[t].namespace,
   body |-> IF Verb(t) \in BodyVerbs THEN Given(BodyOf(t)) ELSE AbsentMap,
   kwargs |-> KwargsOf(t),
   client |-> client[inst[t]]]

\* the argument list of the client call in each run():
\*   create, patch, replace: namespace=namespace, body=self.body, **kube_kwargs
\*   delete, read:           name=name, namespace=namespace, **kube_kwargs
\*   list:                   namespace=namespace, **kube_kwargs
CallArgs(t) ==
  [op |-> ApiOp(Verb(t)),
   name |-> IF Verb(t) \in {"delete", "read"} THEN local[t].name ELSE None,
   namespace |-> local[t].namespace,
   body |-> IF Verb(t) \in BodyVerbs THEN Given(body[inst[t]]) ELSE AbsentMap,
   kwargs |-> KwargsOf(t),
   client |-> client[inst[t]]]

\* results of the client operation: the operations on one job take name as a
\* required parameter and raise TypeError when it is missing; otherwise the
\* server answers or the client raises ApiException
ApiOutcomes(c) ==
  IF c.op \in {ApiOp(v) : v \in NameVerbs} /\ c.name = None
    THEN {"TypeError"}
    ELSE {"ok", "ApiException"}

\* a run() that puts the stored dictionaries back when the client call raises
Call_Rollback(t) ==
  /\ pc[t] = "call"
  /\ \E r \in ApiOutcomes(CallArgs(t)) :
       /\ calls' = [calls EXCEPT ![t] = Append(@, [req |-> CallArgs(t), result |-> r])]
       /\ outcome' = [outcome EXCEPT ![t] = r]
       /\ body' = [body EXCEPT ![inst[t]] = IF r = "ok" THEN @ ELSE pre[t].body]
       /\ kube_kwargs' = [kube_kwargs EXCEPT ![inst[t]] =
                             IF r = "ok" THEN @ ELSE pre[t].kube_kwargs]
  /\ log' = [log EXCEPT ![t] = Append(@, "call")]
  /\ pc' = [pc EXCEPT ![t] = "done"]
  /\ UNCHANGED <<ctor, name, namespace, kubernetes_api_key_secret, client, frame,
                 expect, allCalled, runs, started>>

\* a run() that tries the client call a second time when the first raises
Call_Retry(t) ==
  /\ pc[t] = "call"
  /\ \E r1 \in ApiOutcomes(CallArgs(t)), r2 \in ApiOutcomes(CallArgs(t)) :
       /\ calls' = [calls EXCEPT ![t] =
                      IF r1 = "ok"
                        THEN Append(@, [req |-> CallArgs(t), result |-> r1])
                        ELSE @ \o <<[req |-> CallArgs(t), result |-> r1],
                                    [req |-> CallArgs(t), result |-> r2]>>]
       /\ outcome' = [outcome EXCEPT ![t] = IF r1 = "ok" THEN r1 ELSE r2]
  /\ log' = [log EXCEPT ![t] = Append(@, "call")]
  /\ pc' = [pc EXCEPT ![t] = "done"]
  /\ UNCHANGED <<ctor, stored, client, frame, expect, allCalled, runs, started>>

\* self.client.<verb>_namespaced_job(...)
Call(t) ==
  /\ pc[t] = "call"
  /\ \E r \in ApiOutcomes(CallArgs(t)) :
       /\ calls' = [calls EXCEPT ![t] = Append(@, [req |-> CallArgs(t), result |-> r])]
       /\ outcome' = [outcome EXCEPT ![t] = r]
  /\ log' = [log EXCEPT ![t] = Append(@, "call")]
  /\ pc' = [pc EXCEPT ![t] = "done"]
  /\ UNCHANGED <<ctor, stored, client, frame, expect, allCalled, runs, started>>

\* run() has returned or raised; the thread is free again
Return(t) ==
  /\ pc[t] = "done"
  /\ pc' = [pc EXCEPT ![t] = "idle"]
  /\ inst' = [inst EXCEPT ![t] = 1]
  /\ args' = [args EXCEPT ![t] = NoArgs]
  /\ local' = [local EXCEPT ![t] = NoLocal]
  /\ pre' = [pre EXCEPT ![t] = NoPre]
  /\ log' = [log EXCEPT ![t] = <<>>]
  /\ calls' = [calls EXCEPT ![t] = <<>>]
  /\ outcome' = [outcome EXCEPT ![t] = "none"]
  /\ UNCHANGED <<ctor, stored, client, expect, allCalled, runs, started>>

\* one invocation at a time, on the first thread
StartSeq ==
  /\ \A u \in Thr : pc[u] = "idle"
  /\ \E a \in RunCalls(ctor[1].verb) : Start(1, 1, a)

Next ==
  \/ StartSeq
  \/ \E t \in Thr : Validate(t)
  \/ \E t \in Thr : SecretGet(t)
  \/ \E t \in Thr : TokenClient(t)
  \/ \E t \in Thr : LoadInCluster(t)
  \/ \E t \in Thr : LoadKubeConfig(t)
  \/ \E t \in Thr : AmbientClient(t)
  \/ \E t \in Thr : MergeBody(t)
  \/ \E t \in Thr : MergeKwargs(t)
  \/ \E t \in Thr : Call(t)
  \/ \E t \in Thr : Return(t)

Spec == Init /\ [][Next]_vars

\* ------------------------------------------- two threads of the engine
\* two tasks with a body, built from two different dictionaries
ConcCtors ==
  {[i \in Inst |->
      IF i = 1
        THEN [verb |-> v, body |-> Given("a" :> [x |-> 1]), name |-> None,
              namespace |-> None, kube_kwargs |-> AbsentMap, secret |-> None]
        ELSE [verb |-> "create", body |-> Given("b" :> [y |-> 1]), name |-> None,
              namespace |-> None, kube_kwargs |-> AbsentMap, secret |-> None]] :
     v \in BodyVerbs}

InitConc == \E cs \in ConcCtors : Constructed(cs)

\* the run-time arguments of these invocations: a body or none, a secret
\* name or none, and the name the checks ask for
ConcRunCalls(v) ==
  {a \in RunCalls(v) :
     /\ a.body # Given(EmptyMap)
     /\ a.namespace = None
     /\ a.kube_kwargs = AbsentMap
     /\ (v \in NameVerbs => a.name # None)}

\* each thread is given one invocation, of any instance, whatever the other
\* thread is doing; the behaviour ends when both invocations have ended
StartConc ==
  \E t \in Thr :
    /\ pc[t] = "idle"
    /\ \E i \in Inst : \E a \in ConcRunCalls(ctor[i].verb) : Start(t, i, a)

NextConc ==
  \/ StartConc
  \/ \E t \in Thr : Validate(t)
  \/ \E t \in Thr : SecretGet(t)
  \/ \E t \in Thr : TokenClient(t)
  \/ \E t \in Thr : LoadInCluster(t)
  \/ \E t \in Thr : LoadKubeConfig(t)
  \/ \E t \in Thr : AmbientClient(t)
  \/ \E t \in Thr : MergeBody(t)
  \/ \E t \in Thr : MergeKwargs(t)
  \/ \E t \in Thr : Call(t)

SpecConc == InitConc /\ [][NextConc]_vars

\* ================================================================ claims
I(t) == inst[t]
Active(t) == pc[t] # "idle"
Called(t) == Len(calls[t]) > 0

\* what the caller asked for in this invocation, as plain mappings
RunBody(t)   == IF args[t].body.given THEN args[t].body.val ELSE EmptyMap
RunKwargsOf(t) == IF args[t].kube_kwargs.given THEN args[t].kube_kwargs.val ELSE EmptyMap

\* C1: for create, patch and replace, after any sequence of invocations that
\* each reached the API call (so after any sequence of successful ones), the
\* body passed to the latest call is the constructor's body updated key by
\* key with the run-time bodies in order, nested values replaced whole, and
\* the stored body is that same mapping.
C1_BodyIsFoldOfOverrides ==
  \A t \in Thr :
    (pc[t] = "done" /\ Called(t) /\ Verb(t) \in BodyVerbs /\ allCalled[I(t)])
      => /\ calls[t][1].req.body = Given(expect[I(t)])
         /\ body[I(t)] = expect[I(t)]

\* C1 witness: a second successful invocation of a create task built with
\* {"a": {x: 1}}, after overrides {"b": ...} and {"a": {y: 1}} in some order
\* or a repeat with no body: the call carries {"a": {y: 1}, "b": {x: 1}}.
C1_Witness ==
  \E t \in Thr :
    /\ pc[t] = "done" /\ outcome[t] = "ok" /\ runs = 2 /\ allCalled[I(t)]
    /\ ctor[I(t)].verb = "create"
    /\ ctor[I(t)].body = Given("a" :> [x |-> 1])
    /\ args[t].body = Given("a" :> [y |-> 1])
    /\ calls[t][1].req.body = Given(("a" :> [y |-> 1]) @@ ("b" :> [x |-> 1]))
    /\ body[I(t)] = (("a" :> [y |-> 1]) @@ ("b" :> [x |-> 1]))

\* C2: for all six verbs, the keyword options passed to the API call are the
\* stored extra options updated key by key with the run-time extra options;
\* every stored key the run-time options do not mention is still passed.
C2_KwargsAreMerged ==
  \A t \in Thr :
    Called(t) =>
      calls[t][1].req.kwargs = KeyByKey(pre[t].kube_kwargs, RunKwargsOf(t))

\* the resolved body of an invocation: the run-time body if one is given,
\* otherwise the body stored when run() was entered
ResolvedBody(t) == IF args[t].body.given THEN args[t].body.val ELSE pre[t].body

NoEffects(t) ==
  /\ log[t] = <<>>
  /\ calls[t] = <<>>
  /\ body[I(t)] = pre[t].body
  /\ kube_kwargs[I(t)] = pre[t].kube_kwargs

\* C3: for create, patch and replace, an invocation whose resolved body is
\* empty ends with the validation error, and makes no secret lookup, no
\* credential load, no client, no merge and no API call.
C3_EmptyBodyFailsFirst ==
  \A t \in Thr :
    (Active(t) /\ Verb(t) \in BodyVerbs /\ ~Truthy(ResolvedBody(t)))
      => /\ pc[t] \in {"validate", "done"}
         /\ (pc[t] = "done" => outcome[t] = "ValueError")
         /\ NoEffects(t)

\* C3 witness: a patch task with a stored body and a run-time name, invoked
\* with the empty body {}, has ended with the validation error.
C3_Witness ==
  \E t \in Thr :
    /\ pc[t] = "done" /\ outcome[t] = "ValueError"
    /\ ctor[I(t)].verb = "patch"
    /\ args[t].body = Given(EmptyMap)
    /\ args[t].name = "job2"
    /\ Truthy(pre[t].body)
    /\ log[t] = <<>>

InClusterTried(t)  == \E r \in {"ok", "ConfigException", "Error"} :
                        Has(log[t], "incluster:" \o r)
KubeConfigTried(t) == \E r \in {"ok", "Error"} : Has(log[t], "kubeconfig:" \o r)
Key(t) == local[t].kubernetes_api_key

\* C5: in an invocation whose secret lookup returned a non-empty value,
\* neither the in-cluster load nor the local-file load is attempted, the
\* client that is built carries that value as its authorization, and the API
\* call goes through that client; for every verb.
C5_TokenWins ==
  \A t \in Thr :
    (Active(t) /\ Key(t).token)
      => /\ ~InClusterTried(t) /\ ~KubeConfigTried(t)
         /\ (Has(log[t], "client") =>
               client[I(t)] = [kind |-> "token", auth |-> Key(t)])
         /\ (Called(t) =>
               calls[t][1].req.client = [kind |-> "token", auth |-> Key(t)])

\* C5 witness: a read invocation whose run-time secret name K2 resolved to a
\* token has made its call through the client built with that token.
C5_Witness ==
  \E t \in Thr :
    /\ pc[t] = "done" /\ Called(t)
    /\ ctor[I(t)].verb = "read"
    /\ Key(t) = [secret |-> "K2", token |-> TRUE]
    /\ calls[t][1].req.client.auth = [secret |-> "K2", token |-> TRUE]

\* the number of entries of l that are e
Count(l, e) == Cardinality({n \in 1..Len(l) : l[n] = e})

\* C6: when the secret lookup yields nothing, the in-cluster load is tried
\* first; the local-file load is tried exactly when the in-cluster load
\* raised ConfigException; and when the local-file load fails the invocation
\* ends there with that error: no other load, no retry, no client, no call.
C6_AmbientFallback ==
  \A t \in Thr :
    (Active(t) /\ Has(log[t], "secret") /\ ~Key(t).token)
      => /\ log[t][1] = "secret"
         /\ (pc[t] # "incluster" => Len(log[t]) >= 2 /\ InClusterTried(t)
                                     /\ log[t][2] \in {"incluster:ok",
                                          "incluster:ConfigException", "incluster:Error"})
         /\ (KubeConfigTried(t) => log[t][2] = "incluster:ConfigException")
         /\ (Has(log[t], "incluster:ConfigException")
               => pc[t] = "kubeconfig" \/ KubeConfigTried(t))
         /\ (Has(log[t], "incluster:ok") => ~KubeConfigTried(t) /\ pc[t] # "kubeconfig")
         /\ (Has(log[t], "kubeconfig:Error")
               => /\ pc[t] = "done" /\ outcome[t] = "KubeConfigError"
                  /\ log[t] = <<"secret", "incluster:ConfigException", "kubeconfig:Error">>
                  /\ calls[t] = <<>>)
         /\ Count(log[t], "kubeconfig:ok") + Count(log[t], "kubeconfig:Error") <= 1

\* C6 witness: no secret, not in a cluster, no usable kube config file: the
\* invocation has ended with the error of the local-file load.
C6_Witness ==
  \E t \in Thr :
    /\ pc[t] = "done" /\ outcome[t] = "KubeConfigError"
    /\ log[t] = <<"secret", "incluster:ConfigException", "kubeconfig:Error">>

\* C7: for delete, patch, read and replace, every API call carries the
\* resolved resource name and the resolved namespace; none is issued without
\* the name.
C7_CallCarriesName ==
  \A t \in Thr :
    (Called(t) /\ Verb(t) \in NameVerbs)
      => /\ calls[t][1].req.name # None
         /\ calls[t][1].req.name = local[t].name
         /\ calls[t][1].req.namespace = local[t].namespace

\* C8: an invocation uses the run-time name (delete, patch, read, replace)
\* and namespace (all verbs) when one is given, otherwise the value given to
\* the constructor; with no namespace given at all the namespace is
\* "default".
C8_CtorArgsAreDefaults ==
  \A t \in Thr :
    Active(t)
      => /\ (Verb(t) \in NameVerbs =>
               local[t].name = IF args[t].name # None THEN args[t].name
                               ELSE ctor[I(t)].name)
         /\ local[t].namespace =
               IF args[t].namespace # None THEN args[t].namespace
               ELSE IF ctor[I(t)].namespace # None THEN ctor[I(t)].namespace
               ELSE "default"

CredentialsResolved(t) ==
  Key(t).token \/ Has(log[t], "incluster:ok") \/ Has(log[t], "kubeconfig:ok")

\* C9: an invocation issues at most one API call, of the operation of its
\* verb: exactly one once validation and credential resolution have
\* succeeded, none when either failed; what the call returned or raised is
\* the outcome of the invocation; a list call has no name and no body.
C9_ExactlyOneCall ==
  \A t \in Thr :
    /\ Len(calls[t]) <= 1
    /\ Count(log[t], "call") = Len(calls[t])
    /\ (Called(t) => /\ calls[t][1].req.op = ApiOp(Verb(t))
                     /\ pc[t] = "done" /\ outcome[t] = calls[t][1].result
                     /\ CredentialsResolved(t)
                     /\ (Verb(t) = "list" => calls[t][1].req.name = None
                                             /\ calls[t][1].req.body = AbsentMap))
    /\ (pc[t] = "done" =>
          /\ (outcome[t] \in {"ValueError", "InClusterError", "KubeConfigError"}
                <=> ~Called(t))
          /\ (CredentialsResolved(t) => Called(t)))

\* C9 witness: a list task built with no arguments and run with none has
\* made its one call: list, namespace "default", no name, no body, no options.
C9_Witness ==
  \E t \in Thr :
    /\ pc[t] = "done" /\ outcome[t] = "ok"
    /\ ctor[I(t)] = PlainList /\ args[t] = NoArgs
    /\ Len(calls[t]) = 1
    /\ calls[t][1].req.op = "list_namespaced_job"
    /\ calls[t][1].req.namespace = "default"
    /\ calls[t][1].req.body = AbsentMap
    /\ calls[t][1].req.kwargs = EmptyMap

Unmerged(t) ==
  /\ body[I(t)] = pre[t].body
  /\ kube_kwargs[I(t)] = pre[t].kube_kwargs

\* n-th entry of l is e1 and a later one is e2, whenever e2 is in l
Before(l, e1, e2) ==
  \A n \in 1..Len(l) : l[n] = e2 => \E m \in 1..(n - 1) : l[m] = e1

\* C10 as stated: the overrides are merged before credentials are resolved:
\* once the secret lookup has been made, the stored body and extra options
\* already include the run-time overrides.
C10_MergedBeforeSecretLookup ==
  \A t \in Thr :
    (Active(t) /\ Has(log[t], "secret"))
      => /\ (Verb(t) \in BodyVerbs => body[I(t)] = KeyByKey(pre[t].body, RunBody(t)))
         /\ kube_kwargs[I(t)] = KeyByKey(pre[t].kube_kwargs, RunKwargsOf(t))

\* C10 amended: the order is validate, secret lookup and credential loads,
\* client, merge of body, merge of extra options, call.  Until the client has
\* been built the stored body and extra options are those from before the
\* invocation, so an invocation that fails in credential resolution leaves
\* them unchanged.
C10_MergeAfterCredentials ==
  \A t \in Thr :
    Active(t)
      => /\ (pc[t] \in {"validate", "secret", "token_client", "incluster",
                        "kubeconfig", "ambient_client"} => Unmerged(t))
         /\ (outcome[t] \in {"InClusterError", "KubeConfigError"}
               => Unmerged(t) /\ ~Has(log[t], "merge_body")
                              /\ ~Has(log[t], "merge_kwargs"))
         /\ Before(log[t], "secret", "client")
         /\ Before(log[t], "client", "merge_body")
         /\ Before(log[t], "client", "merge_kwargs")
         /\ Before(log[t], "merge_kwargs", "call")
         /\ (Verb(t) \in BodyVerbs => Before(log[t], "merge_body", "merge_kwargs"))

\* C10 witness: an invocation with a run-time body that would change the
\* stored body has failed in the local-file load, and the stored body is
\* still the one from before.
C10_Witness ==
  \E t \in Thr :
    /\ pc[t] = "done" /\ outcome[t] = "KubeConfigError"
    /\ Verb(t) \in BodyVerbs
    /\ KeyByKey(pre[t].body, RunBody(t)) # pre[t].body
    /\ body[I(t)] = pre[t].body

\* C11 as stated: an invocation that ends with an error, of whatever kind,
\* leaves the stored body and extra options as they were before it started.
C11_ErrorLeavesStoredUnchanged ==
  \A t \in Thr :
    (pc[t] = "done" /\ outcome[t] # "ok") => Unmerged(t)

\* C11 amended: an invocation that ends with the validation error or a
\* credential failure leaves the stored body and extra options as they were
\* before it started; one that ends with an error of its client call leaves
\* them updated with its run-time overrides.
C11_OnlyCallErrorsKeepOverrides ==
  \A t \in Thr :
    pc[t] = "done"
      => /\ (outcome[t] \in {"ValueError", "InClusterError", "KubeConfigError"}
               => Unmerged(t))
         /\ (outcome[t] \in {"ApiException", "TypeError"}
               => /\ body[I(t)] = KeyByKey(pre[t].body, RunBody(t))
                  /\ kube_kwargs[I(t)] = KeyByKey(pre[t].kube_kwargs, RunKwargsOf(t)))

\* C11 witness: a create invocation with a run-time body that changes the
\* stored body has ended with the error of its client call, and the stored
\* body is the changed one.
C11_Witness ==
  \E t \in Thr :
    /\ pc[t] = "done" /\ outcome[t] = "ApiException"
    /\ ctor[I(t)].verb = "create"
    /\ args[t].body = Given("b" :> [x |-> 1])
    /\ pre[t].body = ("a" :> [x |-> 1])
    /\ body[I(t)] = (("a" :> [x |-> 1]) @@ ("b" :> [x |-> 1]))

\* the client an invocation builds from the credential it resolved itself
OwnClient(t) ==
  IF Key(t).token
    THEN [kind |-> "token", auth |-> Key(t)]
    ELSE [kind |-> IF Has(log[t], "kubeconfig:ok") THEN "kubeconfig" ELSE "incluster",
          auth |-> NoKey]

\* C12: when two invocations of one task instance run concurrently, each
\* issues its API call through the client built from the credential that
\* this invocation resolved, in every interleaving.
C12_CallUsesOwnClient ==
  \A t \in Thr :
    Called(t) => calls[t][1].req.client = OwnClient(t)

\* the body the constructor of the instance of t stored
CtorBody(t) == InitBody(ctor[I(t)])

\* C13: an invocation that is the only one on its task instance passes the
\* constructor's body updated with its own run-time body, whatever an
\* invocation on another instance does at the same time; of two concurrent
\* invocations on one instance, each passes the constructor's body updated
\* with its own run-time body, or with both run-time bodies in either order.
C13_RaceOnlyWithinInstance ==
  \A t \in Thr :
    Called(t) =>
      IF started[I(t)] = 1
        THEN calls[t][1].req.body = Given(KeyByKey(CtorBody(t), RunBody(t)))
        ELSE \E u \in Thr \ {t} :
               /\ I(u) = I(t) /\ Active(u)
               /\ calls[t][1].req.body.val \in
                    {KeyByKey(CtorBody(t), RunBody(t)),
                     KeyByKey(KeyByKey(CtorBody(t), RunBody(u)), RunBody(t)),
                     KeyByKey(KeyByKey(CtorBody(t), RunBody(t)), RunBody(u))}

\* C13 witness: invocations A and B of one instance carry run-time bodies
\* with different keys, and the body of A's call holds an entry that neither
\* A's run-time body nor the body stored when A started has: B's.
C13_Witness ==
  \E t \in Thr : \E u \in Thr \ {t} :
    /\ I(t) = I(u) /\ Called(t) /\ Active(u)
    /\ Truthy(RunBody(t)) /\ Truthy(RunBody(u))
    /\ (DOMAIN RunBody(t)) \cap (DOMAIN RunBody(u)) = {}
    /\ \E k \in DOMAIN RunBody(u) :
         /\ k \notin DOMAIN pre[t].body
         /\ k \in DOMAIN calls[t][1].req.body.val
         /\ calls[t][1].req.body.val[k] = RunBody(u)[k]

\* C14: in every state the stored name, namespace and secret name of a task
\* are the ones its constructor set, and an invocation works with the
\* run-time value of each where one was given and with the constructor's
\* otherwise, however many invocations came before it.
C14_CtorFieldsAreFrozen ==
  /\ \A i \in Inst :
       /\ name[i] = InitName(ctor[i])
       /\ namespace[i] = InitNamespace(ctor[i])
       /\ kubernetes_api_key_secret[i] = InitSecret(ctor[i])
  /\ \A t \in Thr :
       Active(t) =>
         /\ local[t].name = IF args[t].name # None THEN args[t].name
                            ELSE InitName(ctor[I(t)])
         /\ local[t].namespace = IF args[t].namespace # None THEN args[t].namespace
                                 ELSE InitNamespace(ctor[I(t)])
         /\ local[t].kubernetes_api_key_secret =
              IF args[t].secret # None THEN args[t].secret
              ELSE InitSecret(ctor[I(t)])

\* C14 witness: a second invocation of DeleteNamespacedJob(name="job1",
\* namespace="ns1") was given name, namespace, secret name and options, has
\* made its call with them, and has changed the stored options only.
C14_Witness ==
  \E t \in Thr :
    /\ runs = 2 /\ pc[t] = "done" /\ outcome[t] = "ok" /\ Verb(t) = "delete"
    /\ ctor[I(t)].name = "job1" /\ ctor[I(t)].namespace = "ns1"
    /\ args[t].name = "job2" /\ args[t].namespace = "ns2" /\ args[t].secret = "K2"
    /\ calls[t][1].req.name = "job2" /\ calls[t][1].req.namespace = "ns2"
    /\ name[I(t)] = "job1" /\ namespace[I(t)] = "ns1"
    /\ kubernetes_api_key_secret[I(t)] = "KUBERNETES_API_KEY"
    /\ kube_kwargs[I(t)] # pre[t].kube_kwargs

====
